---- MODULE Spec2Model ----
(***************************************************************************)
(* Model of the compounding engine of KidsWealthBlueprint.tsx              *)
(* (calculateCompound and its helper getMonthlyAmountAtAge).               *)
(*                                                                         *)
(* Numbers.  The engine works on JavaScript numbers.  The model keeps a   *)
(* non-negative number exactly, as a record [int, frac]: int is the        *)
(* integer part and frac the digits after the point in base Q, most        *)
(* significant first, without trailing zeros.  Q = 1200 * RateScale is the *)
(* denominator of the monthly return (annualReturn / 100 / 12) when the    *)
(* annual return is a multiple of 1/RateScale percent, so every value the  *)
(* loop produces has a finite expansion: after m months the balance has at *)
(* most m digits.  Rounding error of the 64-bit floating point format is   *)
(* not modelled; it is below 1e-9 for the magnitudes used here and matters *)
(* only for a balance that close to a rounding boundary.                   *)
(***************************************************************************)
EXTENDS Integers, Sequences, FiniteSets, TLC

\* annualReturn is held as an integer count of 1/RateScale percent
\* (the Return slider moves in steps of 0.5).
RateScale == 2

\* base of the fractional digits: annualReturn / RateScale / 100 / 12 = annualReturn / Q
Q == 1200 * RateScale

------------------------------------------------------------------------------
(* Exact arithmetic on [int, frac] values *)

RECURSIVE Trim(_)
Trim(f) ==
  IF f # <<>> /\ f[Len(f)] = 0 THEN Trim(SubSeq(f, 1, Len(f) - 1)) ELSE f

RECURSIVE Zeros(_)
Zeros(n) == IF n <= 0 THEN <<>> ELSE <<0>> \o Zeros(n - 1)

Pad(f, n) == f \o Zeros(n - Len(f))

MaxOf(x, y) == IF x >= y THEN x ELSE y

\* the integer n
Num(n) == [int |-> n, frac |-> <<>>]

\* the number t / 10
Tenths(t) == [int |-> t \div 10, frac |-> Trim(<<(t % 10) * (Q \div 10)>>)]

\* digits f times the small integer p: digits of the product and carry into the integer part
RECURSIVE MulFrac(_, _)
MulFrac(f, p) ==
  IF f = <<>> THEN [carry |-> 0, digits |-> <<>>]
  ELSE LET rest == MulFrac(Tail(f), p)
           t == Head(f) * p + rest.carry
       IN [carry |-> t \div Q, digits |-> <<t % Q>> \o rest.digits]

\* a * (Q + r) / Q, for Q + r >= 0
MulRatio(a, r) ==
  LET m == MulFrac(a.frac, Q + r)
      t == a.int * r + m.carry
  IN [int |-> a.int + (t \div Q), frac |-> Trim(<<t % Q>> \o m.digits)]

\* digitwise sum of two digit strings of equal length
RECURSIVE AddFrac(_, _)
AddFrac(f, g) ==
  IF f = <<>> THEN [carry |-> 0, digits |-> <<>>]
  ELSE LET rest == AddFrac(Tail(f), Tail(g))
           t == Head(f) + Head(g) + rest.carry
       IN [carry |-> t \div Q, digits |-> <<t % Q>> \o rest.digits]

Add(a, b) ==
  LET n == MaxOf(Len(a.frac), Len(b.frac))
      s == AddFrac(Pad(a.frac, n), Pad(b.frac, n))
  IN [int |-> a.int + b.int + s.carry, frac |-> Trim(s.digits)]

\* lexicographic comparison of two digit strings of equal length
RECURSIVE FracLess(_, _)
FracLess(f, g) ==
  IF f = <<>> THEN FALSE
  ELSE IF Head(f) # Head(g) THEN Head(f) < Head(g)
  ELSE FracLess(Tail(f), Tail(g))

Less(a, b) ==
  LET n == MaxOf(Len(a.frac), Len(b.frac))
  IN IF a.int # b.int THEN a.int < b.int
     ELSE FracLess(Pad(a.frac, n), Pad(b.frac, n))

\* a >= b
GEq(a, b) == ~Less(a, b)

\* digitwise difference f - g of two digit strings of equal length, with borrow
RECURSIVE SubFrac(_, _)
SubFrac(f, g) ==
  IF f = <<>> THEN [borrow |-> 0, digits |-> <<>>]
  ELSE LET rest == SubFrac(Tail(f), Tail(g))
           t == Head(f) - Head(g) - rest.borrow
       IN [borrow |-> IF t < 0 THEN 1 ELSE 0,
           digits |-> <<t % Q>> \o rest.digits]

\* a - b for a >= b
Minus(a, b) ==
  LET n == MaxOf(Len(a.frac), Len(b.frac))
      s == SubFrac(Pad(a.frac, n), Pad(b.frac, n))
  IN [int |-> a.int - b.int - s.borrow, frac |-> Trim(s.digits)]

\* a - b as a signed value: neg is TRUE for a negative difference, abs its magnitude
Sub(a, b) ==
  IF Less(a, b) THEN [neg |-> TRUE, abs |-> Minus(b, a)]
  ELSE [neg |-> FALSE, abs |-> Minus(a, b)]

\* Math.round of a non-negative number: halves go up
MathRound(a) ==
  IF a.frac # <<>> /\ 2 * a.frac[1] >= Q THEN a.int + 1 ELSE a.int

\* Math.round of a signed number: floor(x + 0.5), so a negative half goes towards zero
MathRoundSigned(s) ==
  IF ~s.neg THEN MathRound(s.abs)
  ELSE LET a == s.abs
           aboveHalf == /\ a.frac # <<>>
                        /\ \/ 2 * a.frac[1] > Q
                           \/ 2 * a.frac[1] = Q /\ Len(a.frac) > 1
       IN IF aboveHalf THEN -(a.int + 1) ELSE -a.int

------------------------------------------------------------------------------
(* calculateCompound *)

\* largest horizon, in years, of the calls explored
MaxYears == 3

VARIABLES
  args,                 \* the arguments of the call of calculateCompound
  month,                \* loop counter of the for loop
  balance,
  totalContributed,
  currentMonthlyAmount, \* value computed by the latest iteration (0 before the first)
  data,                 \* points pushed so far
  pc                    \* "loop" while the for loop runs, "done" once data is returned

engineVars == <<args, month, balance, totalContributed, currentMonthlyAmount, data, pc>>

\* const totalMonths = years * 12
totalMonths(years) == years * 12

\* const currentAge = startAge + month / 12
currentAge(startAge, m) ==
  Add(startAge, [int |-> m \div 12, frac |-> Trim(<<(m % 12) * (Q \div 12)>>)])

\* one step of the stable sort by descending age: e goes behind every entry
\* whose age is not below its own, so equal ages keep the caller's order
RECURSIVE InsertByAge(_, _)
InsertByAge(s, e) ==
  IF s = <<>> THEN <<e>>
  ELSE IF GEq(Head(s).age, e.age) THEN <<Head(s)>> \o InsertByAge(Tail(s), e)
  ELSE <<e>> \o s

RECURSIVE SortInto(_, _)
SortInto(acc, rest) ==
  IF rest = <<>> THEN acc ELSE SortInto(InsertByAge(acc, Head(rest)), Tail(rest))

\* variant of InsertByAge for an ascending sort
RECURSIVE InsertByAgeAscending(_, _)
InsertByAgeAscending(s, e) ==
  IF s = <<>> THEN <<e>>
  ELSE IF GEq(e.age, Head(s).age) THEN <<Head(s)>> \o InsertByAgeAscending(Tail(s), e)
  ELSE <<e>> \o s

RECURSIVE SortIntoAscending(_, _)
SortIntoAscending(acc, rest) ==
  IF rest = <<>> THEN acc
  ELSE SortIntoAscending(InsertByAgeAscending(acc, Head(rest)), Tail(rest))

\* variant: the comparator is a.age - b.age, the schedule is sorted by ascending age
sortedAscending(entries) == SortIntoAscending(<<>>, entries)

\* variant: the schedule is matched in the caller's order, without sorting
sortedNot(entries) == entries

\* [...contributionSchedule].sort((a, b) => b.age - a.age)
sorted(entries) == SortInto(<<>>, entries)

\* variant: an entry applies only strictly after its age (age > entry.age)
RECURSIVE FirstApplicableStrict(_, _, _)
FirstApplicableStrict(s, age, monthlyAmount) ==
  IF s = <<>> THEN monthlyAmount
  ELSE IF Less(Head(s).age, age) THEN Head(s).amount
  ELSE FirstApplicableStrict(Tail(s), age, monthlyAmount)

\* for (const entry of sorted) { if (age >= entry.age) return entry.amount; } return monthlyAmount
RECURSIVE FirstApplicable(_, _, _)
FirstApplicable(s, age, monthlyAmount) ==
  IF s = <<>> THEN monthlyAmount
  ELSE IF GEq(age, Head(s).age) THEN Head(s).amount
  ELSE FirstApplicable(Tail(s), age, monthlyAmount)

\* variant: contributionSchedule.sort(...) sorts the caller's array in place
ArrayAfterSortInPlace(entries) == sorted(entries)

\* the caller's array after [...contributionSchedule].sort(...): the spread
\* makes a copy, the sort works on the copy and the array itself is not touched
ArrayAfterSort(entries) == entries

\* a schedule is [defined, entries]: defined is FALSE for an omitted argument
getMonthlyAmountAtAge(age, monthlyAmount, contributionSchedule) ==
  IF ~contributionSchedule.defined \/ Len(contributionSchedule.entries) = 0
  THEN monthlyAmount
  ELSE FirstApplicable(sorted(contributionSchedule.entries), age, monthlyAmount)

\* variant: the balance and 1 + monthlyReturn are added, not multiplied
NextBalanceSum(bal, annualReturn, amount) ==
  Add(Add(bal, MulRatio(Num(1), annualReturn)), amount)

\* variant: the contribution is added before the interest is applied
NextBalanceContributionFirst(bal, annualReturn, amount) ==
  MulRatio(Add(bal, amount), annualReturn)

\* variant: the balance is multiplied by monthlyReturn, not by 1 + monthlyReturn
NextBalanceInterestOnly(bal, annualReturn, amount) ==
  Add(MulRatio(bal, annualReturn - Q), amount)

\* variant: the balance is overwritten by the contribution
NextBalanceContributionOnly(bal, annualReturn, amount) == amount

\* balance = balance * (1 + monthlyReturn) + currentMonthlyAmount,
\* with 1 + monthlyReturn = (Q + annualReturn) / Q
NextBalance(bal, annualReturn, amount) == Add(MulRatio(bal, annualReturn), amount)

\* variant: totalContributed = currentMonthlyAmount (assignment for +=)
NextContributedAssigned(contributed, amount) == amount

\* variant: the contribution is counted twice
NextContributedDoubled(contributed, amount) == Add(contributed, Add(amount, amount))

\* totalContributed += currentMonthlyAmount
NextContributed(contributed, amount) == Add(contributed, amount)

\* variant: the loop stops one month early (month < totalMonths)
LoopConditionExclusive(m, years) == m < totalMonths(years)

\* the condition of the for loop
LoopCondition(m, years) == m <= totalMonths(years)

\* variant: month 0 grows and contributes like every other month
AppliesFromZero(m) == m >= 0

\* if (month > 0): month 0 is the initial snapshot
Applies(m) == m > 0

\* the point pushed at a year boundary
Point(age, bal, contributed) ==
  [age |-> age,
   total |-> MathRound(bal),
   contributed |-> MathRound(contributed),
   growth |-> MathRoundSigned(Sub(bal, contributed))]

\* the body of the for loop, from the loop state st = [month, balance,
\* totalContributed, currentMonthlyAmount, data] to the state after month++
LoopBody(a, st) ==
  LET age == currentAge(a.startAge, st.month)
      amount == getMonthlyAmountAtAge(age, a.monthlyAmount, a.contributionSchedule)
      bal == IF Applies(st.month) THEN NextBalance(st.balance, a.annualReturn, amount)
             ELSE st.balance
      contributed == IF Applies(st.month) THEN NextContributed(st.totalContributed, amount)
                     ELSE st.totalContributed
  IN [month |-> st.month + 1,
      balance |-> bal,
      totalContributed |-> contributed,
      currentMonthlyAmount |-> amount,
      data |-> IF st.month % 12 = 0
               THEN Append(st.data, Point(age, bal, contributed))
               ELSE st.data]

\* variant: totalContributed starts at 0, not at the initial investment
LoopStartNothingContributed(a) ==
  [month |-> 0,
   balance |-> a.initialInvestment,
   totalContributed |-> Num(0),
   currentMonthlyAmount |-> Num(0),
   data |-> <<>>]

\* the state at entry of the for loop
LoopStart(a) ==
  [month |-> 0,
   balance |-> a.initialInvestment,
   totalContributed |-> a.initialInvestment,
   currentMonthlyAmount |-> Num(0),
   data |-> <<>>]

RECURSIVE RunLoop(_, _)
RunLoop(a, st) ==
  IF LoopCondition(st.month, a.years) THEN RunLoop(a, LoopBody(a, st)) ELSE st.data

\* the function as a whole
calculateCompound(startAge, monthlyAmount, years, annualReturn, initialInvestment, contributionSchedule) ==
  LET a == [startAge |-> startAge, monthlyAmount |-> monthlyAmount, years |-> years,
            annualReturn |-> annualReturn, initialInvestment |-> initialInvestment,
            contributionSchedule |-> contributionSchedule]
  IN RunLoop(a, LoopStart(a))

------------------------------------------------------------------------------
(* The earlier calculateCompound, of four arguments *)

\* balance after the iteration of month m: 0 before any month, then
\* balance = balance * (1 + monthlyReturn) + monthlyAmount for month > 0
RECURSIVE EarlierBalance(_, _, _)
EarlierBalance(monthlyAmount, annualReturn, m) ==
  IF m = 0 THEN Num(0)
  ELSE Add(MulRatio(EarlierBalance(monthlyAmount, annualReturn, m - 1), annualReturn),
           monthlyAmount)

\* const contributed = monthlyAmount * month
EarlierContributed(monthlyAmount, m) == MulRatio(monthlyAmount, (m - 1) * Q)

\* the point pushed in the iteration of month m, a multiple of 12
EarlierPoint(startAge, monthlyAmount, annualReturn, m) ==
  LET bal == EarlierBalance(monthlyAmount, annualReturn, m)
      contributed == EarlierContributed(monthlyAmount, m)
  IN [age |-> Num(startAge.int + (m \div 12)),
      total |-> MathRound(bal),
      contributed |-> MathRound(contributed),
      growth |-> MathRoundSigned(Sub(bal, contributed))]

\* the earlier function as a whole: the points of months 0, 12, ..., 12 * years
calculateCompoundEarlier(startAge, monthlyAmount, years, annualReturn) ==
  [k \in 1..(years + 1) |-> EarlierPoint(startAge, monthlyAmount, annualReturn, 12 * (k - 1))]

------------------------------------------------------------------------------
(* Axis scaling: the maxValue and yAxisTicks memos *)

\* Math.max(...chartData.map(d => Math.max(d.total, d.contributed)))
RECURSIVE SeriesMax(_)
SeriesMax(chartData) ==
  IF Len(chartData) = 1 THEN MaxOf(chartData[1].total, chartData[1].contributed)
  ELSE MaxOf(MaxOf(chartData[1].total, chartData[1].contributed), SeriesMax(Tail(chartData)))

\* the step chosen from max in the maxValue memo
StepOfMax(max) ==
  IF max >= 1000000 THEN
    IF max < 2000000 THEN 200000
    ELSE IF max < 5000000 THEN 500000
    ELSE IF max < 10000000 THEN 1000000
    ELSE IF max < 20000000 THEN 2000000
    ELSE IF max < 50000000 THEN 5000000
    ELSE 10000000
  ELSE IF max >= 100000 THEN
    LET numTicksWith10k == (max + 9999) \div 10000
    IN IF numTicksWith10k > 12 THEN 20000 ELSE 10000
  ELSE IF max >= 10000 THEN
    IF max < 20000 THEN 2000
    ELSE IF max < 50000 THEN 5000
    ELSE 10000
  ELSE IF max >= 1000 THEN
    IF max < 2000 THEN 500
    ELSE IF max < 5000 THEN 1000
    ELSE 2000
  ELSE IF max >= 100 THEN
    IF max < 200 THEN 50
    ELSE IF max < 500 THEN 100
    ELSE 200
  ELSE
    IF max < 20 THEN 10
    ELSE IF max < 50 THEN 20
    ELSE 50

\* variant: Math.floor(max / step) * step
SnapDown(max, step) == (max \div step) * step

\* const yMax = Math.ceil(max / step) * step
Snap(max, step) == ((max + step - 1) \div step) * step

\* the maxValue memo
ComputeMaxValue(chartData) ==
  IF Len(chartData) = 0 THEN 100000
  ELSE LET max == SeriesMax(chartData)
       IN IF max = 0 THEN 100000 ELSE Snap(max, StepOfMax(max))

\* the step chosen from maxValue in the yAxisTicks memo
StepOfTicks(mv) ==
  IF mv >= 1000000 THEN
    IF mv < 2000000 THEN 200000
    ELSE IF mv < 5000000 THEN 500000
    ELSE IF mv < 10000000 THEN 1000000
    ELSE IF mv < 20000000 THEN 2000000
    ELSE IF mv < 50000000 THEN 5000000
    ELSE 10000000
  ELSE IF mv >= 100000 THEN
    LET numTicks == (mv + 9999) \div 10000
    IN IF numTicks > 12 THEN 20000 ELSE 10000
  ELSE IF mv >= 10000 THEN
    IF mv < 20000 THEN 2000
    ELSE IF mv < 50000 THEN 5000
    ELSE 10000
  ELSE IF mv >= 1000 THEN
    IF mv < 2000 THEN 500
    ELSE IF mv < 5000 THEN 1000
    ELSE 2000
  ELSE IF mv >= 100 THEN
    IF mv < 200 THEN 50
    ELSE IF mv < 500 THEN 100
    ELSE 200
  ELSE
    IF mv < 20 THEN 10
    ELSE IF mv < 50 THEN 20
    ELSE 50

\* while (current <= maxValue) { ticks.push(current); current += step; }
RECURSIVE TickLoop(_, _, _, _)
TickLoop(ticks, current, step, mv) ==
  IF current <= mv THEN TickLoop(Append(ticks, current), current + step, step, mv)
  ELSE ticks

\* variant: the ticks are returned as the loop left them
WithLastTickOmitted(ticks, mv) == ticks

\* if (ticks[ticks.length - 1] !== maxValue) ticks.push(maxValue)
WithLastTick(ticks, mv) ==
  IF ticks[Len(ticks)] # mv THEN Append(ticks, mv) ELSE ticks

\* the yAxisTicks memo
ComputeYAxisTicks(mv) ==
  IF mv = 0 THEN <<0, 100000>>
  ELSE LET step == StepOfTicks(mv)
       IN WithLastTick(TickLoop(<<0>>, step, step, mv), mv)

VARIABLES
  series,      \* the chartData the two memos are computed from
  maxValue,    \* value of the maxValue memo (0 until it is computed)
  yAxisTicks,  \* value of the yAxisTicks memo (empty until it is computed)
  axisPc       \* "max", "ticks", "done": the next memo to compute

axisVars == <<series, maxValue, yAxisTicks, axisPc>>

\* the state of the KidsWealthBlueprint component; amounts and ages are
\* integers, annualReturn counts 1/RateScale percent, an entry of the
\* schedule is [age, amount]
VARIABLES
  startAge,
  initialInvestment,
  monthlyAmount,
  annualReturn,
  targetAge,
  monthlyInputFocused,
  initialInvestmentFocused,
  showAdvancedContributions,
  contributionSchedule,
  focusedContributionIndex,  \* index from 0 of the focused amount field, -1 for null
  focus,                     \* the text field that has the keyboard focus, "none" if none has
  focusIndex                 \* for a field of the schedule, the index from 0 of its entry

uiVars ==
  <<startAge, initialInvestment, monthlyAmount, annualReturn, targetAge,
    monthlyInputFocused, initialInvestmentFocused, showAdvancedContributions,
    contributionSchedule, focusedContributionIndex, focus, focusIndex>>

\* the state of the PasswordGate component: texts are sequences of
\* characters, and calendarMonth is what new Date().getMonth() + 1 gives now
VARIABLES
  input,
  error,
  authed,
  expectedPassword,
  calendarMonth

gateVars == <<input, error, authed, expectedPassword, calendarMonth>>

vars == <<engineVars, axisVars, uiVars, gateVars>>

\* the gate after a login in January: its children are rendered
GatePassed ==
  /\ input = <<"M", "J", "L", "1">>
  /\ error = ""
  /\ authed = TRUE
  /\ expectedPassword = <<"M", "J", "L", "1">>
  /\ calendarMonth = 1

\* the useState defaults
UIInit ==
  /\ startAge = 0
  /\ initialInvestment = 0
  /\ monthlyAmount = 100
  /\ annualReturn = 8 * RateScale
  /\ targetAge = 28
  /\ monthlyInputFocused = FALSE
  /\ initialInvestmentFocused = FALSE
  /\ showAdvancedContributions = FALSE
  /\ contributionSchedule = <<>>
  /\ focusedContributionIndex = -1
  /\ focus = "none"
  /\ focusIndex = 0

\* no call of calculateCompound is in progress
EngineIdle ==
  /\ args = <<>>
  /\ month = 0
  /\ balance = Num(0)
  /\ totalContributed = Num(0)
  /\ currentMonthlyAmount = Num(0)
  /\ data = <<>>
  /\ pc = "idle"

\* no chart is being rendered
AxisIdle ==
  /\ series = <<>>
  /\ maxValue = 0
  /\ yAxisTicks = <<>>
  /\ axisPc = "idle"

------------------------------------------------------------------------------
(* The calls explored *)

StartAges == {0, 3}

MonthlyAmounts == {Num(0), Tenths(2), Tenths(3), Num(100)}

\* -12 %, 0 %, 5.5 %, 12 %
AnnualReturns == {-12 * RateScale, 0, 11, 12 * RateScale}

InitialInvestments == {Num(0), Tenths(5), Num(1000)}

Entry(age, amount) == [age |-> Num(age), amount |-> amount]

NoSchedule == [defined |-> FALSE, entries |-> <<>>]

Schedule(entries) == [defined |-> TRUE, entries |-> entries]

\* schedules for a call starting at age s: none, empty, one entry, two entries
\* in either order, two entries of the same age, an entry beyond the horizon
Schedules(s) ==
  {NoSchedule, Schedule(<<>>)}
  \cup {Schedule(<<Entry(s + 1, A)>>) : A \in {Num(0), Num(50)}}
  \cup {Schedule(<<Entry(s + MaxYears + 1, Num(50))>>)}
  \cup {Schedule(<<Entry(s + i, Num(50)), Entry(s + j, Tenths(75))>>) :
          i \in 0..2, j \in 1..2}

Inputs ==
  UNION {[startAge : {Num(s)}, monthlyAmount : MonthlyAmounts, years : 1..MaxYears,
          annualReturn : AnnualReturns, initialInvestment : InitialInvestments,
          contributionSchedule : Schedules(s)] : s \in StartAges}

Init ==
  /\ args \in Inputs
  /\ month = LoopStart(args).month
  /\ balance = LoopStart(args).balance
  /\ totalContributed = LoopStart(args).totalContributed
  /\ currentMonthlyAmount = LoopStart(args).currentMonthlyAmount
  /\ data = LoopStart(args).data
  /\ pc = "loop"
  /\ AxisIdle
  /\ UIInit
  /\ GatePassed

\* one iteration of the for loop
Iterate ==
  /\ pc = "loop"
  /\ LoopCondition(month, args.years)
  /\ LET st == LoopBody(args, [month |-> month, balance |-> balance,
                               totalContributed |-> totalContributed,
                               currentMonthlyAmount |-> currentMonthlyAmount,
                               data |-> data])
     IN /\ month' = st.month
        /\ balance' = st.balance
        /\ totalContributed' = st.totalContributed
        /\ currentMonthlyAmount' = st.currentMonthlyAmount
        /\ data' = st.data
  /\ args' = [args EXCEPT !.contributionSchedule.entries = ArrayAfterSort(@)]
  /\ UNCHANGED <<pc, axisVars, uiVars, gateVars>>

\* return data
Return ==
  /\ pc = "loop"
  /\ ~LoopCondition(month, args.years)
  /\ pc' = "done"
  /\ UNCHANGED <<args, month, balance, totalContributed, currentMonthlyAmount, data>>
  /\ UNCHANGED <<axisVars, uiVars, gateVars>>

Next == Iterate \/ Return

Spec == Init /\ [][Next]_vars

\* the value returned by the call
Returned == pc = "done"

------------------------------------------------------------------------------
(* The series the axis memos are explored on *)

AxisValues ==
  {0, 1, 19, 20, 49, 50, 99, 100, 199, 200, 499, 500, 950, 999, 1000, 1900,
   1999, 2000, 4500, 4999, 5000, 9999, 10000, 19999, 20000, 49999, 50000,
   99999, 100000, 120000, 120001, 240000, 240001, 900000, 999999, 1000000,
   1999999, 2000000, 4999999, 5000000, 9999999, 10000000, 19999999, 20000000,
   49999999, 50000000, 120000000, 130000001}

AxisPoint(age, total, contributed) ==
  [age |-> Num(age), total |-> total, contributed |-> contributed,
   growth |-> total - contributed]

\* series returned by the engine for inputs the controls allow: a lump sum
\* of 300,000 or 1,000, nothing or 100 added monthly, 5 % or 12 %, one or two years
EngineSeries ==
  {calculateCompound(Num(0), Num(m), y, r * RateScale, Num(i), NoSchedule) :
     m \in {0, 100}, y \in 1..2, r \in {5, 12}, i \in {1000, 300000}}

AxisSeries ==
  {<<>>}
  \cup {<<AxisPoint(0, c, c), AxisPoint(1, t, c)>> : t \in AxisValues, c \in AxisValues}
  \cup EngineSeries

InitAxis ==
  /\ series \in AxisSeries
  /\ maxValue = 0
  /\ yAxisTicks = <<>>
  /\ axisPc = "max"
  /\ EngineIdle
  /\ UIInit
  /\ GatePassed

\* the maxValue memo is evaluated
EvalMaxValue ==
  /\ axisPc = "max"
  /\ maxValue' = ComputeMaxValue(series)
  /\ axisPc' = "ticks"
  /\ UNCHANGED <<series, yAxisTicks, engineVars, uiVars, gateVars>>

\* the yAxisTicks memo is evaluated
EvalYAxisTicks ==
  /\ axisPc = "ticks"
  /\ yAxisTicks' = ComputeYAxisTicks(maxValue)
  /\ axisPc' = "done"
  /\ UNCHANGED <<series, maxValue, engineVars, uiVars, gateVars>>

NextAxis == EvalMaxValue \/ EvalYAxisTicks

SpecAxis == InitAxis /\ [][NextAxis]_vars

\* the largest total or contributed of the series
TrueMax ==
  CHOOSE v \in {series[k].total : k \in 1..Len(series)}
             \cup {series[k].contributed : k \in 1..Len(series)} :
    \A k \in 1..Len(series) : series[k].total <= v /\ series[k].contributed <= v

\* a * k for an integer k >= 0
Times(a, k) == MulRatio(a, (k - 1) * Q)

\* the call has no schedule: the argument is omitted or the array is empty
Flat(a) == ~a.contributionSchedule.defined \/ a.contributionSchedule.entries = <<>>

\* amounts without a fractional part
IntegerAmounts(a) == a.monthlyAmount.frac = <<>> /\ a.initialInvestment.frac = <<>>

------------------------------------------------------------------------------
(* The controls of the page.  A text is a sequence of one-character strings. *)

MinOf(x, y) == IF x <= y THEN x ELSE y

DigitChars == <<"0", "1", "2", "3", "4", "5", "6", "7", "8", "9">>

IsDigit(c) == \E d \in 1..10 : DigitChars[d] = c

DigitValue(c) == (CHOOSE d \in 1..10 : DigitChars[d] = c) - 1

\* e.target.value.replace(/[^0-9]/g, '')
StripNonDigits(t) == SelectSeq(t, IsDigit)

\* Number(numericValue) for a non-empty string of digits
RECURSIVE NumberOfDigits(_)
NumberOfDigits(t) ==
  IF Len(t) = 0 THEN 0
  ELSE 10 * NumberOfDigits(SubSeq(t, 1, Len(t) - 1)) + DigitValue(t[Len(t)])

IsDigitOrDot(c) == IsDigit(c) \/ c = "."

\* e.target.value.replace(/[^0-9.]/g, '')
StripNonDecimal(t) == SelectSeq(t, IsDigitOrDot)

IsDot(c) == c = "."

\* Number(numericValue) for a non-empty string of digits and dots, in units
\* of 1/RateScale: NaN for more than one dot or no digit at all; the texts
\* explored have at most one decimal, 0 or 5
NumberOfDecimal(t) ==
  LET dots == Len(SelectSeq(t, IsDot))
      at == IF dots = 0 THEN Len(t) + 1 ELSE CHOOSE i \in 1..Len(t) : t[i] = "."
      whole == SubSeq(t, 1, at - 1)
      decimals == SubSeq(t, at + 1, Len(t))
  IN IF dots > 1 \/ Len(StripNonDigits(t)) = 0 THEN [nan |-> TRUE, value |-> 0]
     ELSE [nan |-> FALSE,
           value |-> NumberOfDigits(whole) * RateScale
                     + IF Len(decimals) = 0 THEN 0
                       ELSE (DigitValue(decimals[1]) * RateScale) \div 10]

\* texts typed or pasted into an amount field: nothing, 7, 6000, 2000000
AmountTexts == {<<>>, <<"7">>, <<"6", "0", "0", "0">>, <<"2", "0", "0", "0", "0", "0", "0">>}

\* texts typed or pasted into an age field: nothing, 1, 99
AgeTexts == {<<>>, <<"1">>, <<"9", "9">>}

\* texts typed or pasted into the return field: nothing, 0, 3.5, 25, 1.2.3
ReturnTexts ==
  {<<>>, <<"0">>, <<"3", ".", "5">>, <<"2", "5">>, <<"1", ".", "2", ".", "3">>}

\* positions of the range inputs explored (each within min..max on its step;
\* the return slider at 6.5 % and 12 %)
InitialSliderPositions == {1000, 100000}

StartSliderPositions == {0, 2}

MonthlySliderPositions == {25, 5000}

ReturnSliderPositions == {13, 12 * RateScale}

TargetSliderPositions == {1, 3, 70}

mainVars == <<startAge, initialInvestment, monthlyAmount, annualReturn, targetAge>>

scheduleVars == <<showAdvancedContributions, contributionSchedule, focusedContributionIndex>>

\* a click on a control outside the text fields happens when no text field
\* has the focus: a focused field is blurred first
NoFocus == focus = "none"

\* the user puts the caret into text field f
TakeFocus(f) == NoFocus /\ focus' = f /\ focusIndex' = 0

DropFocus(f) == focus = f /\ focus' = "none" /\ focusIndex' = 0

(* Initial Investment *)

InitialSlider ==
  /\ NoFocus
  /\ \E v \in InitialSliderPositions : initialInvestment' = v
  /\ UNCHANGED <<startAge, monthlyAmount, annualReturn, targetAge, scheduleVars,
                 engineVars, axisVars, gateVars,
                 monthlyInputFocused, initialInvestmentFocused, focus, focusIndex>>

InitialFocus ==
  /\ TakeFocus("initial")
  /\ initialInvestmentFocused' = TRUE
  /\ UNCHANGED <<mainVars, scheduleVars,
                 engineVars, axisVars, gateVars,
                 monthlyInputFocused>>

\* variant: setInitialInvestment(num)
InitialFromTextUncapped(num) == num

\* setInitialInvestment(Math.min(1000000, num))
InitialFromText(num) == MinOf(1000000, num)

InitialText ==
  /\ focus = "initial"
  /\ \E t \in AmountTexts :
       LET numericValue == StripNonDigits(t)
       IN initialInvestment' = IF numericValue = <<>> THEN 0
                               ELSE InitialFromText(NumberOfDigits(numericValue))
  /\ UNCHANGED <<startAge, monthlyAmount, annualReturn, targetAge, scheduleVars,
                 engineVars, axisVars, gateVars,
                 monthlyInputFocused, initialInvestmentFocused, focus, focusIndex>>

\* onBlur, also reached by Enter
InitialBlur ==
  /\ DropFocus("initial")
  /\ initialInvestmentFocused' = FALSE
  /\ initialInvestment' = IF initialInvestment > 1000000 THEN 1000000 ELSE initialInvestment
  /\ UNCHANGED <<startAge, monthlyAmount, annualReturn, targetAge, scheduleVars,
                 engineVars, axisVars, gateVars,
                 monthlyInputFocused>>

(* Child's Age *)

StartSlider ==
  /\ NoFocus
  /\ \E age \in StartSliderPositions :
       /\ startAge' = age
       /\ targetAge' = IF age > targetAge THEN age ELSE targetAge
  /\ UNCHANGED <<initialInvestment, monthlyAmount, annualReturn, scheduleVars,
                 engineVars, axisVars, gateVars,
                 monthlyInputFocused, initialInvestmentFocused, focus, focusIndex>>

StartFocus ==
  /\ TakeFocus("start")
  /\ UNCHANGED <<mainVars, scheduleVars,
                 engineVars, axisVars, gateVars,
                 monthlyInputFocused, initialInvestmentFocused>>

StartText ==
  /\ focus = "start"
  /\ \E t \in AgeTexts :
       LET numericValue == StripNonDigits(t)
           age == NumberOfDigits(numericValue)
       IN IF numericValue = <<>>
          THEN startAge' = 0 /\ UNCHANGED targetAge
          ELSE /\ startAge' = age
               /\ targetAge' = IF age > targetAge THEN age ELSE targetAge
  /\ UNCHANGED <<initialInvestment, monthlyAmount, annualReturn, scheduleVars,
                 engineVars, axisVars, gateVars,
                 monthlyInputFocused, initialInvestmentFocused, focus, focusIndex>>

\* onBlur, also reached by Enter; the field shows startAge
StartBlur ==
  /\ DropFocus("start")
  /\ LET age == MaxOf(0, MinOf(25, startAge))
     IN /\ startAge' = age
        /\ targetAge' = IF age > targetAge THEN age ELSE targetAge
  /\ UNCHANGED <<initialInvestment, monthlyAmount, annualReturn, scheduleVars,
                 engineVars, axisVars, gateVars,
                 monthlyInputFocused, initialInvestmentFocused>>

(* Monthly Investment *)

MonthlySlider ==
  /\ NoFocus
  /\ \E v \in MonthlySliderPositions : monthlyAmount' = v
  /\ UNCHANGED <<startAge, initialInvestment, annualReturn, targetAge, scheduleVars,
                 engineVars, axisVars, gateVars,
                 monthlyInputFocused, initialInvestmentFocused, focus, focusIndex>>

MonthlyFocus ==
  /\ TakeFocus("monthly")
  /\ monthlyInputFocused' = TRUE
  /\ UNCHANGED <<mainVars, scheduleVars,
                 engineVars, axisVars, gateVars,
                 initialInvestmentFocused>>

\* variant: setMonthlyAmount(num)
MonthlyFromTextUncapped(num) == num

\* setMonthlyAmount(Math.min(5000, num))
MonthlyFromText(num) == MinOf(5000, num)

MonthlyText ==
  /\ focus = "monthly"
  /\ \E t \in AmountTexts :
       LET numericValue == StripNonDigits(t)
       IN monthlyAmount' = IF numericValue = <<>> THEN 0
                           ELSE MonthlyFromText(NumberOfDigits(numericValue))
  /\ UNCHANGED <<startAge, initialInvestment, annualReturn, targetAge, scheduleVars,
                 engineVars, axisVars, gateVars,
                 monthlyInputFocused, initialInvestmentFocused, focus, focusIndex>>

\* onBlur, also reached by Enter
MonthlyBlur ==
  /\ DropFocus("monthly")
  /\ monthlyInputFocused' = FALSE
  /\ monthlyAmount' = IF monthlyAmount > 5000 THEN 5000 ELSE monthlyAmount
  /\ UNCHANGED <<startAge, initialInvestment, annualReturn, targetAge, scheduleVars,
                 engineVars, axisVars, gateVars,
                 initialInvestmentFocused>>

(* Return *)

ReturnSlider ==
  /\ NoFocus
  /\ \E v \in ReturnSliderPositions : annualReturn' = v
  /\ UNCHANGED <<startAge, initialInvestment, monthlyAmount, targetAge, scheduleVars,
                 engineVars, axisVars, gateVars,
                 monthlyInputFocused, initialInvestmentFocused, focus, focusIndex>>

ReturnFocus ==
  /\ TakeFocus("return")
  /\ UNCHANGED <<mainVars, scheduleVars,
                 engineVars, axisVars, gateVars,
                 monthlyInputFocused, initialInvestmentFocused>>

ReturnText ==
  /\ focus = "return"
  /\ \E t \in ReturnTexts :
       LET numericValue == StripNonDecimal(t)
           num == NumberOfDecimal(numericValue)
       IN annualReturn' = IF numericValue = <<>> THEN 5 * RateScale
                          ELSE IF ~num.nan THEN num.value
                          ELSE annualReturn
  /\ UNCHANGED <<startAge, initialInvestment, monthlyAmount, targetAge, scheduleVars,
                 engineVars, axisVars, gateVars,
                 monthlyInputFocused, initialInvestmentFocused, focus, focusIndex>>

\* onBlur, also reached by Enter; the field shows annualReturn, and
\* Number(value) || 5 turns 0 into 5
ReturnBlur ==
  /\ DropFocus("return")
  /\ LET shown == IF annualReturn = 0 THEN 5 * RateScale ELSE annualReturn
     IN annualReturn' = MaxOf(5 * RateScale, MinOf(20 * RateScale, shown))
  /\ UNCHANGED <<startAge, initialInvestment, monthlyAmount, targetAge, scheduleVars,
                 engineVars, axisVars, gateVars,
                 monthlyInputFocused, initialInvestmentFocused>>

(* Target Age *)

\* the range input has min = startAge and max = 70
TargetSlider ==
  /\ NoFocus
  /\ \E v \in TargetSliderPositions :
       /\ startAge <= v /\ v <= 70
       /\ targetAge' = v
  /\ UNCHANGED <<startAge, initialInvestment, monthlyAmount, annualReturn, scheduleVars,
                 engineVars, axisVars, gateVars,
                 monthlyInputFocused, initialInvestmentFocused, focus, focusIndex>>

TargetFocus ==
  /\ TakeFocus("target")
  /\ UNCHANGED <<mainVars, scheduleVars,
                 engineVars, axisVars, gateVars,
                 monthlyInputFocused, initialInvestmentFocused>>

TargetText ==
  /\ focus = "target"
  /\ \E t \in AgeTexts :
       LET numericValue == StripNonDigits(t)
       IN targetAge' = IF numericValue = <<>> THEN startAge
                       ELSE NumberOfDigits(numericValue)
  /\ UNCHANGED <<startAge, initialInvestment, monthlyAmount, annualReturn, scheduleVars,
                 engineVars, axisVars, gateVars,
                 monthlyInputFocused, initialInvestmentFocused, focus, focusIndex>>

\* onBlur, also reached by Enter; the field shows targetAge, and
\* Number(value) || startAge turns 0 into startAge
TargetBlur ==
  /\ DropFocus("target")
  /\ LET shown == IF targetAge = 0 THEN startAge ELSE targetAge
     IN targetAge' = MaxOf(startAge, MinOf(70, shown))
  /\ UNCHANGED <<startAge, initialInvestment, monthlyAmount, annualReturn, scheduleVars,
                 engineVars, axisVars, gateVars,
                 monthlyInputFocused, initialInvestmentFocused>>

InitUI == UIInit /\ EngineIdle /\ AxisIdle /\ GatePassed

NextInputs ==
  \/ InitialSlider \/ InitialFocus \/ InitialText \/ InitialBlur
  \/ StartSlider \/ StartFocus \/ StartText \/ StartBlur
  \/ MonthlySlider \/ MonthlyFocus \/ MonthlyText \/ MonthlyBlur
  \/ ReturnSlider \/ ReturnFocus \/ ReturnText \/ ReturnBlur
  \/ TargetSlider \/ TargetFocus \/ TargetText \/ TargetBlur


\* the five inputs of the chart, their sliders and text fields
SpecInputs == InitUI /\ [][NextInputs]_vars

------------------------------------------------------------------------------
(* The advanced contribution schedule *)

\* largest number of schedule entries explored
MaxEntries == 2

\* latest age given to an added entry (repeated Remove and Add would
\* otherwise walk the ages up to targetAge)
MaxEntryAge == 3

otherFlags == <<monthlyInputFocused, initialInvestmentFocused>>

\* texts typed or pasted into the age field of an entry: nothing, 99
ScheduleAgeTexts == {<<>>, <<"9", "9">>}

\* texts typed or pasted into the amount field of an entry: nothing, 6000
ScheduleAmountTexts == {<<>>, <<"6", "0", "0", "0">>}

\* indices from 0 of the schedule entries
EntryIndices == 0..(Len(contributionSchedule) - 1)

\* updated[index] = { ...updated[index], age: age }
WithAge(index, age) ==
  [contributionSchedule EXCEPT ![index + 1] = [@ EXCEPT !.age = age]]

\* updated[index] = { ...updated[index], amount: amount }
WithAmount(index, amount) ==
  [contributionSchedule EXCEPT ![index + 1] = [@ EXCEPT !.amount = amount]]

\* Math.max(...contributionSchedule.map(e => e.age)) for a non-empty schedule
LatestAge ==
  CHOOSE a \in {contributionSchedule[k].age : k \in 1..Len(contributionSchedule)} :
    \A k \in 1..Len(contributionSchedule) : contributionSchedule[k].age <= a

\* variant: opening the section keeps what the schedule held
ToggleAdvancedContributionsKeepsEntries ==
  /\ NoFocus
  /\ showAdvancedContributions' = ~showAdvancedContributions
  /\ UNCHANGED <<contributionSchedule, focusedContributionIndex>>
  /\ UNCHANGED <<mainVars, otherFlags, focus, focusIndex, engineVars, axisVars, gateVars>>

\* handleToggleAdvancedContributions
ToggleAdvancedContributions ==
  /\ NoFocus
  /\ IF ~showAdvancedContributions
     THEN contributionSchedule' = <<>> /\ focusedContributionIndex' = -1
     ELSE UNCHANGED <<contributionSchedule, focusedContributionIndex>>
  /\ showAdvancedContributions' = ~showAdvancedContributions
  /\ UNCHANGED <<mainVars, otherFlags, focus, focusIndex, engineVars, axisVars, gateVars>>

\* + Add Another Age
AddAnotherAge ==
  /\ NoFocus
  /\ showAdvancedContributions
  /\ Len(contributionSchedule) < MaxEntries
  /\ LET lastAge == IF Len(contributionSchedule) > 0 THEN LatestAge + 1 ELSE startAge + 1
     IN /\ MinOf(lastAge, targetAge) <= MaxEntryAge
        /\ contributionSchedule' =
             Append(contributionSchedule,
                    [age |-> MinOf(lastAge, targetAge), amount |-> monthlyAmount])
  /\ UNCHANGED <<mainVars, otherFlags, showAdvancedContributions,
                 focusedContributionIndex, focus, focusIndex, engineVars, axisVars, gateVars>>

\* the remove button of an entry, shown when there is more than one
RemoveEntry ==
  /\ NoFocus
  /\ showAdvancedContributions
  /\ Len(contributionSchedule) > 1
  /\ \E index \in EntryIndices :
       contributionSchedule' =
         SubSeq(contributionSchedule, 1, index)
         \o SubSeq(contributionSchedule, index + 2, Len(contributionSchedule))
  /\ UNCHANGED <<mainVars, otherFlags, showAdvancedContributions,
                 focusedContributionIndex, focus, focusIndex, engineVars, axisVars, gateVars>>

AgeFocus ==
  /\ NoFocus
  /\ showAdvancedContributions
  /\ \E index \in EntryIndices : focus' = "age" /\ focusIndex' = index
  /\ UNCHANGED <<mainVars, otherFlags, scheduleVars, engineVars, axisVars, gateVars>>

\* onChange of the age field of the entry
AgeText ==
  /\ focus = "age"
  /\ \E t \in ScheduleAgeTexts :
       LET numericValue == StripNonDigits(t)
       IN contributionSchedule' =
            WithAge(focusIndex, IF numericValue = <<>> THEN startAge
                                ELSE NumberOfDigits(numericValue))
  /\ UNCHANGED <<mainVars, otherFlags, showAdvancedContributions,
                 focusedContributionIndex, focus, focusIndex, engineVars, axisVars, gateVars>>

\* onBlur of the age field, also reached by Enter or Tab; the field shows
\* the age of the entry, and Number(value) || minAge turns 0 into minAge
AgeBlur ==
  /\ focus = "age"
  /\ LET index == focusIndex
         minAge == IF index = 0 THEN startAge
                   ELSE MaxOf(startAge, contributionSchedule[index].age)
         maxAge == IF index < Len(contributionSchedule) - 1
                   THEN contributionSchedule[index + 2].age
                   ELSE targetAge
         shown == IF contributionSchedule[index + 1].age = 0 THEN minAge
                  ELSE contributionSchedule[index + 1].age
         newAge == MaxOf(minAge, MinOf(maxAge, shown))
     IN contributionSchedule' = WithAge(index, newAge)
  /\ focus' = "none" /\ focusIndex' = 0
  /\ UNCHANGED <<mainVars, otherFlags, showAdvancedContributions,
                 focusedContributionIndex, engineVars, axisVars, gateVars>>

\* onFocus of the amount field of the entry
AmountFocus ==
  /\ NoFocus
  /\ showAdvancedContributions
  /\ \E index \in EntryIndices :
       /\ focus' = "amount" /\ focusIndex' = index
       /\ focusedContributionIndex' = index
  /\ UNCHANGED <<mainVars, otherFlags, showAdvancedContributions, contributionSchedule,
                 engineVars, axisVars, gateVars>>

\* onChange of the amount field of the entry
AmountText ==
  /\ focus = "amount"
  /\ \E t \in ScheduleAmountTexts :
       LET numericValue == StripNonDigits(t)
       IN contributionSchedule' =
            WithAmount(focusIndex, IF numericValue = <<>> THEN 0
                                   ELSE NumberOfDigits(numericValue))
  /\ UNCHANGED <<mainVars, otherFlags, showAdvancedContributions,
                 focusedContributionIndex, focus, focusIndex, engineVars, axisVars, gateVars>>

\* onBlur of the amount field, also reached by Enter or Tab
AmountBlur ==
  /\ focus = "amount"
  /\ LET amount == contributionSchedule[focusIndex + 1].amount
         newAmount == MaxOf(0, MinOf(5000, amount))
     IN contributionSchedule' =
          IF newAmount # amount THEN WithAmount(focusIndex, newAmount)
          ELSE contributionSchedule
  /\ focusedContributionIndex' = -1
  /\ focus' = "none" /\ focusIndex' = 0
  /\ UNCHANGED <<mainVars, otherFlags, showAdvancedContributions, engineVars, axisVars, gateVars>>

NextSchedule ==
  \/ ToggleAdvancedContributions \/ AddAnotherAge \/ RemoveEntry
  \/ AgeFocus \/ AgeText \/ AgeBlur
  \/ AmountFocus \/ AmountText \/ AmountBlur
  \/ StartSlider \/ TargetSlider

\* the schedule section, with the sliders of the two ages
SpecSchedule == InitUI /\ [][NextSchedule]_vars

------------------------------------------------------------------------------
(* The chartData memo *)

\* longest horizon in years for which the chartData memo is evaluated
MaxChartYears == 1

\* variant: the horizon is the difference of the ages, not clamped
ChartYearsUnclamped == targetAge - startAge

\* const years = Math.max(1, targetAge - startAge)
ChartYears == MaxOf(1, targetAge - startAge)

\* the schedule of the page as the engine's argument
EngineSchedule ==
  Schedule([k \in 1..Len(contributionSchedule) |->
              [age |-> Num(contributionSchedule[k].age),
               amount |-> Num(contributionSchedule[k].amount)]])

\* variant: the schedule is passed whenever it has entries
ScheduleArgAnyEntries ==
  IF Len(contributionSchedule) > 0 THEN EngineSchedule ELSE NoSchedule

\* const schedule = showAdvancedContributions && contributionSchedule.length > 0
\*   ? contributionSchedule : undefined
ScheduleArg ==
  IF showAdvancedContributions /\ Len(contributionSchedule) > 0
  THEN EngineSchedule ELSE NoSchedule

\* the call of the engine with a given schedule argument
ChartDataWith(schedule) ==
  calculateCompound(Num(startAge), Num(monthlyAmount), ChartYears, annualReturn,
                    Num(initialInvestment), schedule)

\* the chartData memo
ChartData == ChartDataWith(ScheduleArg)

------------------------------------------------------------------------------
(* The password gate *)

\* the letters explored, in lower and in upper case
LowerChars == <<"j", "l", "m", "x">>

UpperChars == <<"J", "L", "M", "X">>

\* the upper-case form of a character
UpperOf(c) ==
  IF \E k \in 1..Len(LowerChars) : LowerChars[k] = c
  THEN UpperChars[CHOOSE k \in 1..Len(LowerChars) : LowerChars[k] = c]
  ELSE c

\* variant: the text is compared as typed
toUpperCaseKeepsCase(t) == t

\* String.prototype.toUpperCase
toUpperCase(t) == [k \in 1..Len(t) |-> UpperOf(t[k])]

IsSpace(c) == c = " "

RECURSIVE trimStart(_)
trimStart(t) == IF t # <<>> /\ IsSpace(Head(t)) THEN trimStart(Tail(t)) ELSE t

RECURSIVE trimEnd(_)
trimEnd(t) ==
  IF t # <<>> /\ IsSpace(t[Len(t)]) THEN trimEnd(SubSeq(t, 1, Len(t) - 1)) ELSE t

\* String.prototype.trim
trim(t) == trimEnd(trimStart(t))

\* `${month}`: the decimal digits of a month number, without padding
MonthText(m) ==
  IF m < 10 THEN <<DigitChars[m + 1]>>
  ELSE <<DigitChars[(m \div 10) + 1], DigitChars[(m % 10) + 1]>>

\* `MJL${month}`
PasswordOf(m) == <<"M", "J", "L">> \o MonthText(m)

Months == 1..12

\* texts typed or pasted into the password field
GateTexts ==
  { <<>>, <<"M", "J", "L">>, <<"x">>,
    <<"M", "J", "L", "1">>, <<"m", "j", "l", "1">>, <<" ", "m", "J", "l", "1", " ">>,
    <<"M", "J", "L", "0", "1">>, <<"M", " ", "J", "L", "1">>,
    <<"M", "J", "L", "2">>, <<"M", "J", "L", "1", "2">>, <<"m", "j", "l", "1", "2">> }

\* the first render: the useState defaults, and the expectedPassword memo
\* evaluated in the month of that render
GateInit ==
  /\ calendarMonth \in Months
  /\ expectedPassword = PasswordOf(calendarMonth)
  /\ input = <<>>
  /\ error = ""
  /\ authed = FALSE

\* onChange of the password field, rendered while authed is false
GateType ==
  /\ ~authed
  /\ \E t \in GateTexts : input' = t
  /\ error' = ""
  /\ UNCHANGED <<authed, expectedPassword, calendarMonth, engineVars, axisVars, uiVars>>

\* const normalized = input.trim().toUpperCase()
normalized == toUpperCase(trim(input))

\* handleLogin, from the Log in button or the Enter key; both are rendered
\* while authed is false
handleLogin ==
  /\ ~authed
  /\ IF normalized = expectedPassword
     THEN authed' = TRUE /\ error' = "" /\ UNCHANGED input
     ELSE error' = "Incorrect password. Please try again." /\ input' = <<>> /\ UNCHANGED authed
  /\ UNCHANGED <<expectedPassword, calendarMonth, engineVars, axisVars, uiVars>>

\* the calendar moves on to the next month; the memo has no dependencies
\* and is not evaluated again
MonthPasses ==
  /\ calendarMonth' = (calendarMonth % 12) + 1
  /\ UNCHANGED <<input, error, authed, expectedPassword, engineVars, axisVars, uiVars>>

\* an event of the children, which are rendered while authed is true
ChildEvent ==
  /\ authed
  /\ MonthlySlider \/ ToggleAdvancedContributions

\* variant: the children are rendered whatever authed is
RenderedAlways == "children"

\* if (authed) return children, otherwise the login form
Rendered == IF authed THEN "children" ELSE "form"

InitGate == GateInit /\ UIInit /\ EngineIdle /\ AxisIdle

NextGate == GateType \/ handleLogin \/ MonthPasses \/ ChildEvent

\* the gate around the page
SpecGate == InitGate /\ [][NextGate]_vars

------------------------------------------------------------------------------
\* C1: the call returns years + 1 points and the k-th point (k = 0..years)
\* has age startAge + k.
C1_PointPerYear ==
  Returned =>
    /\ Len(data) = args.years + 1
    /\ \A k \in 0..args.years : data[k + 1].age = Num(args.startAge.int + k)

C1_Witness ==
  Returned /\ args.years >= 2 /\ args.startAge = Num(3) /\ Len(data) = args.years + 1

\* b(0) = initialInvestment, b(m) = b(m-1) * (1 + annualReturn/1200) + monthlyAmount
RECURSIVE FlatBalance(_, _)
FlatBalance(a, m) ==
  IF m = 0 THEN a.initialInvestment
  ELSE Add(MulRatio(FlatBalance(a, m - 1), a.annualReturn), a.monthlyAmount)

\* C2: with no schedule the total of year k is round(b(12k)); the first
\* point has total = contributed = round(initialInvestment) and growth = 0.
C2_FlatRecurrence ==
  (Returned /\ ~args.contributionSchedule.defined) =>
    /\ \A k \in 0..args.years : data[k + 1].total = MathRound(FlatBalance(args, 12 * k))
    /\ data[1].total = MathRound(args.initialInvestment)
    /\ data[1].contributed = MathRound(args.initialInvestment)
    /\ data[1].growth = 0

C2_Witness ==
  /\ Returned /\ ~args.contributionSchedule.defined
  /\ args.annualReturn = 11 /\ args.monthlyAmount = Num(100)
  /\ args.initialInvestment = Num(1000) /\ args.years >= 2
  /\ data[2].total > 1000 + 1200

\* C3: with no schedule and integer amounts, contributed at year N is
\* initialInvestment + monthlyAmount * 12 * N, whatever the annual return.
C3_FlatContributed ==
  (Returned /\ Flat(args) /\ IntegerAmounts(args)) =>
    \A N \in 0..args.years :
      data[N + 1].contributed =
        args.initialInvestment.int + args.monthlyAmount.int * 12 * N

C3_Witness ==
  /\ Returned /\ Flat(args) /\ args.contributionSchedule.defined
  /\ args.monthlyAmount = Num(100) /\ args.initialInvestment = Num(1000)
  /\ args.annualReturn < 0 /\ args.years >= 2
  /\ data[3].contributed = 3400

\* the simulated age startAge + m/12 has reached the age of entry e (ages in months)
Reached(e, m) == 12 * e.age.int <= 12 * args.startAge.int + m

\* the amounts the schedule prescribes for month m: the amount of an entry
\* with the greatest age reached, or the flat monthlyAmount when there is none
Prescribed(m) ==
  LET es == args.contributionSchedule.entries
      reached == {i \in 1..Len(es) : Reached(es[i], m)}
  IN IF Flat(args) \/ reached = {} THEN {args.monthlyAmount}
     ELSE {es[i].amount : i \in {j \in reached :
                                   \A k \in reached : es[k].age.int <= es[j].age.int}}

\* C4: the contribution applied at every month m >= 1 is the amount of the
\* entry with the greatest age <= startAge + m/12, and the flat monthlyAmount
\* when the schedule is absent or empty or no entry has been reached.
C4_ApplicableAmount ==
  [][(pc = "loop" /\ month >= 1 /\ month' = month + 1) =>
       /\ currentMonthlyAmount' \in Prescribed(month)
       /\ totalContributed' = Add(totalContributed, currentMonthlyAmount')
       /\ balance' = Add(MulRatio(balance, args.annualReturn), currentMonthlyAmount')]_vars

C4_Witness ==
  /\ pc = "loop" /\ month = 26
  /\ args.contributionSchedule.defined
  /\ args.contributionSchedule.entries =
       <<Entry(args.startAge.int + 1, Num(50)), Entry(args.startAge.int + 2, Tenths(75))>>
  /\ args.monthlyAmount = Num(100)
  /\ currentMonthlyAmount = Tenths(75)

\* the schedule is [{age: startAge + 1, amount: A}]
OneYearOverride(a) ==
  /\ a.contributionSchedule.defined
  /\ Len(a.contributionSchedule.entries) = 1
  /\ a.contributionSchedule.entries[1].age = Num(a.startAge.int + 1)

\* C5: with schedule [{age: startAge+1, amount: A}] and base B, months 1..11
\* contribute B and every month from 12 on contributes A, so contributed at
\* year N >= 1 is initialInvestment + 11*B + (12*(N-1) + 1)*A.
C5_OverrideFromNextYear ==
  OneYearOverride(args) =>
    LET A == args.contributionSchedule.entries[1].amount
        B == args.monthlyAmount
    IN /\ (month >= 2) => (currentMonthlyAmount = IF month - 1 <= 11 THEN B ELSE A)
       /\ Returned =>
            \A N \in 1..args.years :
              data[N + 1].contributed =
                MathRound(Add(args.initialInvestment,
                              Add(Times(B, 11), Times(A, 12 * (N - 1) + 1))))

C5_Witness ==
  /\ Returned /\ OneYearOverride(args)
  /\ args.contributionSchedule.entries[1].amount = Num(50)
  /\ args.monthlyAmount = Num(100) /\ args.initialInvestment = Num(0)
  /\ args.years >= 2
  /\ data[3].contributed = 1100 + 13 * 50

\* the results of the call for every order of the schedule entries
Reorderings(a) ==
  LET es == a.contributionSchedule.entries
  IN {calculateCompound(a.startAge, a.monthlyAmount, a.years, a.annualReturn,
                        a.initialInvestment,
                        Schedule([i \in 1..Len(es) |-> es[f[i]]])) :
        f \in Permutations(1..Len(es))}

DistinctAges(a) ==
  LET es == a.contributionSchedule.entries
  IN \A i, j \in 1..Len(es) : i # j => es[i].age # es[j].age

\* C6 as stated: the result is the same for every order of the schedule
\* entries, also when two entries have the same age.
C6_AnyOrderSameResult ==
  (Returned /\ args.contributionSchedule.defined) => Reorderings(args) = {data}

\* C6: the result does not depend on the order in which the caller lists the
\* schedule entries when no two entries have the same age.
C6_OrderOfDistinctAges ==
  (Returned /\ args.contributionSchedule.defined /\ DistinctAges(args)) =>
    Reorderings(args) = {data}

C6_Witness ==
  /\ Returned
  /\ args.contributionSchedule.defined
  /\ args.contributionSchedule.entries =
       <<Entry(args.startAge.int + 1, Num(50)), Entry(args.startAge.int + 2, Tenths(75))>>
  /\ args.monthlyAmount = Num(100) /\ args.years >= 3
  /\ Reorderings(args) = {data}

\* C7: the contributed values of the returned points are non-decreasing.
C7_ContributedNonDecreasing ==
  Returned => \A k \in 1..(Len(data) - 1) : data[k].contributed <= data[k + 1].contributed

C7_Witness ==
  /\ Returned /\ args.years >= 2 /\ Flat(args)
  /\ args.monthlyAmount = Tenths(3) /\ args.initialInvestment = Num(1000)
  /\ data[1].contributed < data[2].contributed
  /\ data[2].contributed < data[3].contributed

ExampleCall(a) ==
  /\ a.startAge = Num(0) /\ a.monthlyAmount = Num(100) /\ a.years = 1
  /\ a.annualReturn = 12 * RateScale /\ a.initialInvestment = Num(0)
  /\ ~a.contributionSchedule.defined

\* C9 as stated: the year-1 point of the example has contributed = 1200,
\* total = 1280 and growth = total - 1200.
C9_ExampleTotal1280 ==
  (Returned /\ ExampleCall(args)) =>
    /\ data[2].contributed = 1200
    /\ data[2].total = 1280
    /\ data[2].growth = data[2].total - 1200

\* C9: the year-1 point of the example has contributed = 1200, total = 1268
\* (12 iterations of balance * 1.01 + 100 from 0 give 1268.25) and growth = 68.
C9_ExampleTotal1268 ==
  (Returned /\ ExampleCall(args)) =>
    /\ data[2].contributed = 1200
    /\ data[2].total = 1268
    /\ data[2].growth = data[2].total - 1200

C9_Witness == Returned /\ ExampleCall(args) /\ Len(data) = 2

\* C10: with annualReturn >= 0 the total values of the returned points are
\* non-decreasing.
C10_TotalNonDecreasing ==
  (Returned /\ args.annualReturn >= 0) =>
    \A k \in 1..(Len(data) - 1) : data[k].total <= data[k + 1].total

C10_Witness ==
  /\ Returned /\ args.annualReturn > 0 /\ Flat(args)
  /\ args.monthlyAmount = Num(0) /\ args.initialInvestment = Num(1000)
  /\ args.years >= 2
  /\ data[1].total < data[2].total
  /\ data[2].total < data[3].total

\* C11: with monthlyAmount = 0, initialInvestment = 0 and no schedule every
\* returned point has total = 0, contributed = 0 and growth = 0.
C11_NothingInNothingOut ==
  (/\ Returned
   /\ args.monthlyAmount = Num(0) /\ args.initialInvestment = Num(0)
   /\ ~args.contributionSchedule.defined) =>
    \A k \in 1..Len(data) :
      data[k].total = 0 /\ data[k].contributed = 0 /\ data[k].growth = 0

C11_Witness ==
  /\ Returned
  /\ args.monthlyAmount = Num(0) /\ args.initialInvestment = Num(0)
  /\ ~args.contributionSchedule.defined
  /\ args.annualReturn = 12 * RateScale /\ args.years >= 2 /\ args.startAge = Num(3)
  /\ Len(data) = args.years + 1

C14_SmallestMultiple ==
  (axisPc \in {"ticks", "done"} /\ series # <<>> /\ TrueMax > 0) =>
    LET step == StepOfMax(TrueMax)
    IN /\ maxValue % step = 0
       /\ maxValue >= TrueMax
       /\ maxValue - TrueMax < step

C14_Witness ==
  axisPc = "done" /\ series # <<>> /\ TrueMax = 950 /\ maxValue = 1000

\* the list 0, step, 2*step, ..., mv
IsArithmetic(ticks, step, mv) ==
  /\ Len(ticks) = (mv \div step) + 1
  /\ \A i \in 1..Len(ticks) : ticks[i] = (i - 1) * step

\* C15: for trueMax > 0 the tick list is 0, step, 2*step, ..., maxValue with
\* the step that was used to compute maxValue from trueMax.
C15_TicksUseStepOfMax ==
  (axisPc = "done" /\ series # <<>> /\ TrueMax > 0) =>
    IsArithmetic(yAxisTicks, StepOfMax(TrueMax), maxValue)

\* C16: the tick list starts with 0, is strictly increasing, has no value
\* above maxValue and ends with maxValue.
C16_TicksWellFormed ==
  (axisPc = "done") =>
    /\ yAxisTicks[1] = 0
    /\ \A i \in 1..(Len(yAxisTicks) - 1) : yAxisTicks[i] < yAxisTicks[i + 1]
    /\ \A i \in 1..Len(yAxisTicks) : yAxisTicks[i] <= maxValue
    /\ yAxisTicks[Len(yAxisTicks)] = maxValue

C16_Witness ==
  /\ axisPc = "done" /\ series # <<>> /\ TrueMax = 4500
  /\ maxValue = 5000 /\ yAxisTicks = <<0, 2000, 4000, 5000>>

\* C17: for a series the engine produces from in-range inputs the tick list
\* has at most 13 entries.
C17_AtMost13Ticks ==
  (axisPc = "done" /\ series \in EngineSeries) => Len(yAxisTicks) <= 13

\* C18: for an empty series or trueMax = 0, maxValue is 100000 and the tick
\* list is [0, 100000].
C18_DefaultAxis ==
  (axisPc = "done" /\ (series = <<>> \/ TrueMax = 0)) =>
    maxValue = 100000 /\ yAxisTicks = <<0, 100000>>

\* C19: in every state of the page, in the middle of typing included,
\* 0 <= monthlyAmount <= 5000 and 0 <= initialInvestment <= 1000000.
C19_AmountsInRange ==
  /\ 0 <= monthlyAmount /\ monthlyAmount <= 5000
  /\ 0 <= initialInvestment /\ initialInvestment <= 1000000

C19_Witness ==
  /\ focus = "initial" /\ initialInvestment = 1000000
  /\ monthlyAmount = 5000

\* C20: when no text field is in the middle of an edit, 0 <= startAge <= 25,
\* startAge <= targetAge <= 70 and 5 <= annualReturn <= 20.
C20_AgesAndReturnInRange ==
  NoFocus =>
    /\ 0 <= startAge /\ startAge <= 25
    /\ startAge <= targetAge /\ targetAge <= 70
    /\ 5 * RateScale <= annualReturn /\ annualReturn <= 20 * RateScale

\* C13: the chart's simulation is given the schedule exactly when the
\* advanced section is open and the schedule has an entry; while the section
\* is closed chartData is the flat-monthlyAmount simulation, whatever the
\* schedule still holds (chartData is evaluated for horizons up to MaxChartYears).
C13_ScheduleOnlyWhenOpen ==
  /\ ScheduleArg.defined <=> (showAdvancedContributions /\ Len(contributionSchedule) > 0)
  /\ ScheduleArg.defined => ScheduleArg = EngineSchedule
  /\ (~showAdvancedContributions /\ ChartYears <= MaxChartYears) =>
       ChartData = ChartDataWith(NoSchedule)

C13_Witness ==
  /\ ~showAdvancedContributions
  /\ Len(contributionSchedule) = 2
  /\ contributionSchedule[1].amount # monthlyAmount
  /\ ChartYears <= MaxChartYears
  /\ ChartData = ChartDataWith(NoSchedule)
  /\ ChartData # ChartDataWith(EngineSchedule)

C28_LastPointAtTargetAge ==
  ChartYears <= MaxChartYears =>
    ChartData[Len(ChartData)].age = Num(targetAge)

\* the text is the password p between any numbers of spaces, each letter in
\* either case
IsPasswordInAnyCase(t, p) ==
  \E lead \in 0..Len(t) :
    /\ Len(t) >= lead + Len(p)
    /\ \A k \in 1..Len(t) :
         IF k <= lead \/ k > lead + Len(p) THEN t[k] = " "
         ELSE \/ t[k] = p[k - lead]
              \/ \E j \in 1..Len(LowerChars) :
                   LowerChars[j] = t[k] /\ UpperChars[j] = p[k - lead]

\* C22: a login attempt sets authed (and clears the error) exactly when the
\* input, trimmed and in upper case, is MJL followed by the unpadded number
\* of the month the gate derived its password from; any other attempt leaves
\* authed as it was.
C22_LoginAccepts ==
  [][handleLogin =>
       /\ \E m \in Months : expectedPassword = PasswordOf(m)
       /\ IF IsPasswordInAnyCase(input, expectedPassword)
          THEN authed' /\ error' = ""
          ELSE authed' = authed /\ error' # ""]_vars

C22_Witness ==
  /\ authed
  /\ input = <<" ", "m", "J", "l", "1", " ">>
  /\ expectedPassword = <<"M", "J", "L", "1">>
  /\ error = ""

\* C23: a login attempt is accepted exactly when the input is the password
\* of the calendar month current at the time of the attempt.
C23_PasswordOfCurrentMonth ==
  [][handleLogin =>
       (authed' <=> IsPasswordInAnyCase(input, PasswordOf(calendarMonth)))]_vars

\* C24: the children are rendered only while authed is true; authed starts
\* false, becomes true only in a login attempt whose input matched, and
\* never returns to false.
C24_AuthedIsPermanent ==
  /\ ~authed
  /\ [][/\ authed => authed'
        /\ (~authed /\ authed') => (handleLogin /\ normalized = expectedPassword)
        /\ Rendered = "children" <=> authed
        /\ Rendered' = "children" <=> authed']_vars

C24_Witness ==
  /\ authed /\ Rendered = "children"
  /\ monthlyAmount = 5000
  /\ calendarMonth # 1 /\ expectedPassword = PasswordOf(1)

\* C25: a step that opens the advanced section leaves the schedule empty and
\* the focused index null; a step that closes it changes neither; and while
\* the section is open with the schedule empty, as it is after opening,
\* chartData is the flat simulation (chartData is evaluated for horizons up
\* to MaxChartYears).
C25_OpeningResets ==
  [][/\ (~showAdvancedContributions /\ showAdvancedContributions') =>
          /\ contributionSchedule' = <<>>
          /\ focusedContributionIndex' = -1
     /\ (showAdvancedContributions /\ ~showAdvancedContributions') =>
          UNCHANGED <<contributionSchedule, focusedContributionIndex>>
     /\ (/\ showAdvancedContributions
         /\ contributionSchedule = <<>>
         /\ ChartYears <= MaxChartYears) =>
          ChartData = ChartDataWith(NoSchedule)]_vars

C25_Witness ==
  /\ showAdvancedContributions
  /\ contributionSchedule = <<>>
  /\ focusedContributionIndex = -1
  /\ startAge = 2 /\ targetAge = 3
  /\ ChartData = ChartDataWith(NoSchedule)

\* C26: after the blur of the age field of entry i, the age of the entry is
\* at least max(startAge, age of entry i - 1) (startAge for the first entry)
\* and at most the age of entry i + 1 (targetAge for the last entry).
C26_BlurPutsAgeBetweenNeighbours ==
  [][AgeBlur =>
       LET k == focusIndex + 1
           age == contributionSchedule'[k].age
       IN /\ age >= startAge
          /\ k > 1 => age >= contributionSchedule'[k - 1].age
          /\ age <= (IF k < Len(contributionSchedule') THEN contributionSchedule'[k + 1].age
                     ELSE targetAge)]_vars

\* C27: whenever no age field of the schedule is being edited, the entries
\* are in non-decreasing order of age and every age is in startAge..targetAge.
C27_ScheduleOrderedAndInRange ==
  focus # "age" =>
    /\ \A k \in 1..(Len(contributionSchedule) - 1) :
         contributionSchedule[k].age <= contributionSchedule[k + 1].age
    /\ \A k \in 1..Len(contributionSchedule) :
         /\ startAge <= contributionSchedule[k].age
         /\ contributionSchedule[k].age <= targetAge

\* C29: with initialInvestment = 0, no schedule and an integer monthly
\* amount, the call returns the sequence the earlier four-argument
\* calculateCompound returns for the same startAge, monthlyAmount, years and
\* annualReturn.
C29_SameAsEarlierVersion ==
  (/\ Returned
   /\ args.initialInvestment = Num(0)
   /\ ~args.contributionSchedule.defined
   /\ args.monthlyAmount.frac = <<>>) =>
    data = calculateCompoundEarlier(args.startAge, args.monthlyAmount, args.years,
                                    args.annualReturn)

C29_Witness ==
  /\ Returned
  /\ args.initialInvestment = Num(0)
  /\ ~args.contributionSchedule.defined
  /\ args.monthlyAmount = Num(100) /\ args.annualReturn = 11 /\ args.years >= 2
  /\ args.startAge = Num(3)
  /\ data = calculateCompoundEarlier(args.startAge, args.monthlyAmount, args.years,
                                     args.annualReturn)

\* C30: with annualReturn >= 0 (initialInvestment and all amounts are >= 0
\* in every call) every returned point has total >= contributed and
\* growth >= 0.
C30_NeverBelowContributed ==
  (Returned /\ args.annualReturn >= 0) =>
    \A k \in 1..Len(data) :
      data[k].total >= data[k].contributed /\ data[k].growth >= 0

C30_Witness ==
  /\ Returned /\ args.annualReturn = 11
  /\ args.contributionSchedule.defined /\ Len(args.contributionSchedule.entries) = 2
  /\ args.initialInvestment = Num(1000) /\ args.years >= 2
  /\ data[Len(data)].total > data[Len(data)].contributed
  /\ data[Len(data)].growth > 0

====
